---- MODULE Spec2Model ----
(***************************************************************************)
(* Model of the arxiv-daily ingestion run (scripts/arxiv_daily.py):        *)
(* the rate-limited retrying fetch, the paginated boundary scan, the entry *)
(* normalisation, the merge of the three tables and the run ledger.        *)
(***************************************************************************)
EXTENDS Integers, Sequences, FiniteSets, TLC

(***************************************************************************)
(* Bounds of the model.  page_size and max_results are the defaults of     *)
(* iter_today_entries (200 and 2000) scaled down so that a feed of a few   *)
(* entries spans several pages and reaches the cut-off.                     *)
(***************************************************************************)
MaxRuns == 2
MaxFeedLen == 4
PageSize == 2
MaxResults == 3

(***************************************************************************)
(* Program constants.                                                       *)
(***************************************************************************)
SleepSecs == 3
WaitFixed == 5
StopAfterAttempt == 5
Today == 2

None == "None"

(***************************************************************************)
(* Strings the code takes apart are sequences of one-character strings.    *)
(***************************************************************************)
SepPos(s, sep) == {i \in 1..Len(s) : s[i] = sep}

SepAt(s, sep, k) ==
    IF k = 0 THEN 0
    ELSE IF k > Cardinality(SepPos(s, sep)) THEN Len(s) + 1
    ELSE CHOOSE i \in SepPos(s, sep) :
             Cardinality({j \in SepPos(s, sep) : j < i}) = k - 1

Split(s, sep) ==
    [k \in 1..(Cardinality(SepPos(s, sep)) + 1) |->
        SubSeq(s, SepAt(s, sep, k - 1) + 1, SepAt(s, sep, k) - 1)]

Digit(c) ==
    CASE c = "0" -> 0 [] c = "1" -> 1 [] c = "2" -> 2 [] c = "3" -> 3
      [] c = "4" -> 4 [] c = "5" -> 5 [] c = "6" -> 6 [] c = "7" -> 7
      [] c = "8" -> 8 [] c = "9" -> 9 [] OTHER -> -1

IsInt(s) == Len(s) > 0 /\ \A i \in 1..Len(s) : Digit(s[i]) >= 0

RECURSIVE IntOf(_)
IntOf(s) ==
    IF Len(s) = 0 THEN 0
    ELSE 10 * IntOf(SubSeq(s, 1, Len(s) - 1)) + Digit(s[Len(s)])

(***************************************************************************)
(* The feed's entries.  An entry has the identifier URL, a title standing  *)
(* for its descriptive fields, the published timestamp, the authors and    *)
(* the category terms.                                                      *)
(***************************************************************************)
IdA   == <<"h", "/", "a", "v", "1">>
IdB   == <<"h", "/", "b", "v", "2">>
IdBad == <<"h", "/", "a">>

Stamp(d) == [date |-> d, time |-> 0]

EntA1 == [id |-> IdA, title |-> "t1", published |-> Stamp(Today),
          authors |-> << [name |-> "n1", affiliation |-> None],
                         [name |-> "n1", affiliation |-> None] >>,
          tags |-> <<"c1">>]
EntA2 == [id |-> IdA, title |-> "t2", published |-> Stamp(Today),
          authors |-> << [name |-> "n1", affiliation |-> None],
                         [name |-> "n2", affiliation |-> "x"] >>,
          tags |-> <<"c1", "c2">>]
EntB  == [id |-> IdB, title |-> "t1", published |-> Stamp(Today),
          authors |-> << [name |-> "n2", affiliation |-> None] >>,
          tags |-> <<"c2", "c2">>]
EntOld == [id |-> IdB, title |-> "t1", published |-> Stamp(Today - 1),
          authors |-> << [name |-> "n2", affiliation |-> None] >>,
          tags |-> <<"c2">>]
EntBad == [id |-> IdBad, title |-> "t1", published |-> Stamp(Today),
          authors |-> << [name |-> "n1", affiliation |-> None] >>,
          tags |-> <<"c1">>]

Entries == {EntA1, EntA2, EntB, EntOld, EntBad}

RECURSIVE SeqsUpTo(_, _)
SeqsUpTo(S, n) ==
    IF n = 0 THEN {<<>>}
    ELSE LET shorter == SeqsUpTo(S, n - 1)
         IN  shorter \cup {Append(s, x) : s \in {t \in shorter : Len(t) = n - 1}, x \in S}

(***************************************************************************)
(* The pages the feed can return to a request of size entries at offset,   *)
(* given the part of the feed known from the earlier pages (known) and     *)
(* whether one of them came back short (ended): the known entries from     *)
(* offset on, then entries not seen before, and none of those once the     *)
(* feed has ended.                                                          *)
(***************************************************************************)
Min(a, b) == IF a < b THEN a ELSE b

Range(f) == {f[i] : i \in DOMAIN f}

KnownPart(known, offset, size) ==
    SubSeq(known, offset + 1, Min(Len(known), offset + size))

NextPages(known, ended, offset, size) ==
    {KnownPart(known, offset, size) \o p :
        p \in {q \in SeqsUpTo(Entries, size - Len(KnownPart(known, offset, size))) :
                  /\ Len(known) + Len(q) <= MaxFeedLen
                  /\ ended => q = <<>>
                  /\ offset > Len(known) => q = <<>>}}

(***************************************************************************)
(* The entries a new submission can put at the head of the feed while a    *)
(* scan is under way.                                                       *)
(***************************************************************************)
NewSubmissions == {EntB}

(***************************************************************************)
(* iter_today_entries, line 37: the date of the published timestamp.       *)
(***************************************************************************)
PubDate(e) == e.published.date

\* Mutant of BeforeBoundary: the comparison includes the boundary date.
BeforeBoundaryInclusive(e) == PubDate(e) <= Today

\* iter_today_entries, line 38.
BeforeBoundary(e) == PubDate(e) < Today

(***************************************************************************)
(* parse_entry.                                                             *)
(***************************************************************************)
EntryId(e) == Split(e.id, "/")[Len(Split(e.id, "/"))]

ParseFails(e) ==
    LET parts == Split(EntryId(e), "v")
    IN  IF Len(parts) # 2 THEN TRUE ELSE ~IsInt(parts[2])

ParseRec(e) ==
    LET parts == Split(EntryId(e), "v")
    IN  [paper_id_version |-> EntryId(e),
         paper_id         |-> parts[1],
         version          |-> IntOf(parts[2]),
         title            |-> e.title,
         published        |-> e.published,
         all_categories   |-> e.tags]

ParseAuthors(e) ==
    [i \in 1..Len(e.authors) |->
        [paper_id_version |-> EntryId(e),
         author_name      |-> e.authors[i].name,
         affiliation      |-> e.authors[i].affiliation]]

ParseCats(e) ==
    [i \in 1..Len(e.tags) |->
        [paper_id_version |-> EntryId(e), category |-> e.tags[i]]]

(***************************************************************************)
(* Keys of the three tables.                                                *)
(***************************************************************************)
PaperKey(r)  == r.paper_id_version
AuthorKey(r) == <<r.paper_id_version, r.author_name, r.affiliation>>
CatKey(r)    == <<r.paper_id_version, r.category>>

PaperKeys(rows)  == [i \in 1..Len(rows) |-> PaperKey(rows[i])]
AuthorKeys(rows) == [i \in 1..Len(rows) |-> AuthorKey(rows[i])]
CatKeys(rows)    == [i \in 1..Len(rows) |-> CatKey(rows[i])]

(***************************************************************************)
(* pandas drop_duplicates over the key columns: keys is the projection of  *)
(* rows on them.  keep="first" (the default) keeps a row when no earlier   *)
(* row has its key, keep="last" when no later row has it.  Missing values  *)
(* (an absent affiliation) compare equal to each other.                     *)
(***************************************************************************)
RECURSIVE SelectIdx(_, _, _)
SelectIdx(rows, keepIdx, i) ==
    IF i > Len(rows) THEN <<>>
    ELSE (IF i \in keepIdx THEN <<rows[i]>> ELSE <<>>)
         \o SelectIdx(rows, keepIdx, i + 1)

DropDuplicatesFirst(rows, keys) ==
    SelectIdx(rows, {i \in 1..Len(rows) : \A j \in 1..(i - 1) : keys[j] # keys[i]}, 1)

DropDuplicatesLast(rows, keys) ==
    SelectIdx(rows, {i \in 1..Len(rows) : \A j \in (i + 1)..Len(rows) : keys[j] # keys[i]}, 1)

(***************************************************************************)
(* main, lines 109-115: the in-run deduplication and the merge.            *)
(***************************************************************************)
NpDf(newPapers)  == DropDuplicatesFirst(newPapers, PaperKeys(newPapers))
NaDf(newAuthors) == DropDuplicatesFirst(newAuthors, AuthorKeys(newAuthors))
NcDf(newCats)    == DropDuplicatesFirst(newCats, CatKeys(newCats))

\* Mutant of ConcatPapers: the default keep="first" at line 113.
ConcatPapersKeepFirst(existing, npDf) ==
    DropDuplicatesFirst(existing \o npDf, PaperKeys(existing \o npDf))

\* main, line 113.
ConcatPapers(existing, npDf) ==
    DropDuplicatesLast(existing \o npDf, PaperKeys(existing \o npDf))

\* Mutant of ConcatAuthors: the concatenation without drop_duplicates.
ConcatAuthorsNoDedup(existing, naDf) == existing \o naDf

\* Mutant of ConcatAuthors: the links of a paper scanned again replace the
\* links stored for it.
ConcatAuthorsReplace(existing, naDf) ==
    SelectIdx(existing,
              {i \in 1..Len(existing) :
                  \A j \in 1..Len(naDf) :
                      naDf[j].paper_id_version # existing[i].paper_id_version},
              1) \o naDf

\* main, line 114.
ConcatAuthors(existing, naDf) ==
    DropDuplicatesFirst(existing \o naDf, AuthorKeys(existing \o naDf))

\* Mutant of ConcatCats: the concatenation without drop_duplicates.
ConcatCatsNoDedup(existing, ncDf) == existing \o ncDf

\* main, line 115.
ConcatCats(existing, ncDf) ==
    DropDuplicatesFirst(existing \o ncDf, CatKeys(existing \o ncDf))

(***************************************************************************)
(* Files: load_parquet returns the rows of an existing file and an empty   *)
(* table otherwise.                                                         *)
(***************************************************************************)
NoFile == [exists |-> FALSE, rows |-> <<>>]
File(rows) == [exists |-> TRUE, rows |-> rows]

load_parquet(file) == IF file.exists THEN file.rows ELSE <<>>

(***************************************************************************)
(* State.  The four files on disk; the position of the run (pc); the part  *)
(* of the feed the run has been served and whether the feed has ended; the *)
(* locals of main and of iter_today_entries; the        *)
(* attempt number inside fetch; the time elapsed since the last network    *)
(* call of the run.  pre, yielded, requests, stop and err record the run's *)
(* history: the files at its start, the entries yielded, the offsets       *)
(* requested, why the scan ended and which exception ended the run.        *)
(***************************************************************************)
VARIABLES papers_file, authors_file, cats_file, log_file,
          pc, runs, feed, feedEnded, feedChanged,
          papers, authors, categories,
          new_papers, new_authors, new_cats,
          np_df, na_df, nc_df,
          fetched, start, entries, idx,
          attempt, sinceCall, called,
          pre, yielded, requests, stop, err,
          enrich_file, epc, eruns, enr, enrichedFrom,
          other

env    == <<feed, feedEnded, feedChanged>>
disk   == <<papers_file, authors_file, cats_file, log_file>>
tables == <<papers, authors, categories>>
news   == <<new_papers, new_authors, new_cats, np_df, na_df, nc_df>>
scan   == <<fetched, start, entries, idx>>
clock  == <<sinceCall, called>>
hist   == <<pre, yielded, requests, stop, err>>
side   == <<enrich_file, epc, eruns, enr, enrichedFrom, other>>
vars   == <<disk, pc, runs, env, tables, news, scan, attempt, clock, hist, side>>

\* A second instance of the ingestion script, before it is started: its
\* tables, the number of its run, and what it has stored.
OtherIdle ==
    [pc |-> "idle", run |-> 0,
     papers |-> <<>>, authors |-> <<>>, categories |-> <<>>,
     np_df |-> <<>>, na_df |-> <<>>, nc_df |-> <<>>,
     loaded |-> <<NoFile, NoFile, NoFile, NoFile>>, overlap |-> FALSE,
     storedPapers |-> {}, storedAuthors |-> {}, storedCats |-> {}]

\* enrichedFrom remembers the Paper table the day's last enrichment pass
\* stored from, and how many passes in a row stored from it.
NotEnriched == [from |-> NoFile, times |-> 0]

Init ==
    /\ papers_file = NoFile /\ authors_file = NoFile
    /\ cats_file = NoFile /\ log_file = NoFile
    /\ pc = "idle" /\ runs = 0 /\ feed = <<>> /\ feedEnded = FALSE
    /\ feedChanged = FALSE
    /\ papers = <<>> /\ authors = <<>> /\ categories = <<>>
    /\ new_papers = <<>> /\ new_authors = <<>> /\ new_cats = <<>>
    /\ np_df = <<>> /\ na_df = <<>> /\ nc_df = <<>>
    /\ fetched = 0 /\ start = 0 /\ entries = <<>> /\ idx = 1
    /\ attempt = 1 /\ sinceCall = 0 /\ called = FALSE
    /\ pre = disk /\ yielded = <<>> /\ requests = <<>>
    /\ stop = "none" /\ err = "none"
    /\ enrich_file = NoFile /\ epc = "idle" /\ eruns = 0
    /\ enr = <<>> /\ enrichedFrom = NotEnriched
    /\ other = OtherIdle

Ended == pc \in {"idle", "done", "nothing", "error"}

(***************************************************************************)
(* main, lines 85-97: a run starts by loading the three tables.            *)
(***************************************************************************)
\* Mutant of StartRun: the Paper table is not loaded.
StartRunNoLoad ==
    /\ Ended /\ runs < MaxRuns
    /\ runs' = runs + 1
    /\ feed' = <<>> /\ feedEnded' = FALSE /\ feedChanged' = FALSE
    /\ papers' = <<>>
    /\ authors' = load_parquet(authors_file)
    /\ categories' = load_parquet(cats_file)
    /\ new_papers' = <<>> /\ new_authors' = <<>> /\ new_cats' = <<>>
    /\ np_df' = <<>> /\ na_df' = <<>> /\ nc_df' = <<>>
    /\ fetched' = 0 /\ start' = 0 /\ entries' = <<>> /\ idx' = 1
    /\ attempt' = 1 /\ sinceCall' = 0 /\ called' = FALSE
    /\ pre' = disk /\ yielded' = <<>> /\ requests' = <<>>
    /\ stop' = "none" /\ err' = "none"
    /\ pc' = "while"
    /\ UNCHANGED <<side, disk>>

StartRun ==
    /\ Ended /\ runs < MaxRuns
    /\ runs' = runs + 1
    /\ feed' = <<>> /\ feedEnded' = FALSE /\ feedChanged' = FALSE
    /\ papers' = load_parquet(papers_file)
    /\ authors' = load_parquet(authors_file)
    /\ categories' = load_parquet(cats_file)
    /\ new_papers' = <<>> /\ new_authors' = <<>> /\ new_cats' = <<>>
    /\ np_df' = <<>> /\ na_df' = <<>> /\ nc_df' = <<>>
    /\ fetched' = 0 /\ start' = 0 /\ entries' = <<>> /\ idx' = 1
    /\ attempt' = 1 /\ sinceCall' = 0 /\ called' = FALSE
    /\ pre' = disk /\ yielded' = <<>> /\ requests' = <<>>
    /\ stop' = "none" /\ err' = "none"
    /\ pc' = "while"
    /\ UNCHANGED <<side, disk>>

(***************************************************************************)
(* iter_today_entries, lines 24-32: the loop test and the page request.    *)
(***************************************************************************)
WhileNext ==
    /\ pc = "while" /\ fetched < MaxResults
    /\ requests' = Append(requests, start)
    /\ attempt' = 1
    /\ pc' = "sleep"
    /\ UNCHANGED <<side, disk, runs, env, tables, news, scan, clock,
                   pre, yielded, stop, err>>

WhileExit ==
    /\ pc = "while" /\ ~(fetched < MaxResults)
    /\ stop' = "max_results"
    /\ pc' = "scanned"
    /\ UNCHANGED <<side, disk, runs, env, tables, news, scan, attempt, clock,
                   pre, yielded, requests, err>>

(***************************************************************************)
(* fetch, lines 14-19: every attempt sleeps, then makes the network call;  *)
(* a failed attempt is followed by the fixed wait and the next attempt,    *)
(* the last failed attempt by the exception.                                *)
(***************************************************************************)
\* Mutant of FetchSleep: no sleep before the first call of a run.
FetchSleepAfterFirst ==
    /\ pc = "sleep"
    /\ sinceCall' = IF called THEN sinceCall + SleepSecs ELSE sinceCall
    /\ pc' = "call"
    /\ UNCHANGED <<side, disk, runs, env, tables, news, scan, attempt, called, hist>>

FetchSleep ==
    /\ pc = "sleep"
    /\ sinceCall' = sinceCall + SleepSecs
    /\ pc' = "call"
    /\ UNCHANGED <<side, disk, runs, env, tables, news, scan, attempt, called, hist>>

FetchReturn ==
    /\ pc = "call"
    /\ sinceCall' = 0 /\ called' = TRUE
    /\ entries' \in NextPages(feed, feedEnded, start, PageSize)
    /\ feed' = SubSeq(feed, 1, Min(Len(feed), start)) \o entries'
    /\ feedEnded' = (Len(entries') < PageSize)
    /\ UNCHANGED feedChanged
    /\ idx' = 1
    /\ IF entries' = <<>>
       THEN pc' = "scanned" /\ stop' = "empty"
       ELSE pc' = "for" /\ stop' = stop
    /\ attempt' = 1
    /\ UNCHANGED <<side, disk, runs, tables, news, fetched, start,
                   pre, yielded, requests, err>>

\* Mutant of FetchRaise: the last failure is taken for an empty page.
FetchRaiseSwallow ==
    /\ pc = "call"
    /\ sinceCall' = 0 /\ called' = TRUE
    /\ IF attempt < StopAfterAttempt
       THEN pc' = "wait" /\ stop' = stop
       ELSE pc' = "scanned" /\ stop' = "empty"
    /\ UNCHANGED <<side, disk, runs, env, tables, news, scan, attempt,
                   pre, yielded, requests, err>>

FetchRaise ==
    /\ pc = "call"
    /\ sinceCall' = 0 /\ called' = TRUE
    /\ IF attempt < StopAfterAttempt
       THEN pc' = "wait" /\ err' = err
       ELSE pc' = "error" /\ err' = "RetryError"
    /\ UNCHANGED <<side, disk, runs, env, tables, news, scan, attempt,
                   pre, yielded, requests, stop>>

\* Mutant of FetchWait: the attempt is not counted.
FetchWaitNoCount ==
    /\ pc = "wait"
    /\ sinceCall' = sinceCall + WaitFixed
    /\ attempt' = attempt
    /\ pc' = "sleep"
    /\ UNCHANGED <<side, disk, runs, env, tables, news, scan, called, hist>>

FetchWait ==
    /\ pc = "wait"
    /\ sinceCall' = sinceCall + WaitFixed
    /\ attempt' = attempt + 1
    /\ pc' = "sleep"
    /\ UNCHANGED <<side, disk, runs, env, tables, news, scan, called, hist>>

(***************************************************************************)
(* The feed is not the scan's: between two page requests a new submission  *)
(* can arrive at its head and move every entry one place down.             *)
(***************************************************************************)
FeedChange ==
    /\ pc = "while" /\ requests # <<>> /\ ~feedChanged
    /\ Len(feed) < MaxFeedLen
    /\ \E e \in NewSubmissions : feed' = <<e>> \o feed
    /\ feedChanged' = TRUE
    /\ UNCHANGED <<side, disk, pc, runs, feedEnded, tables, news, scan, attempt,
                   clock, hist>>

(***************************************************************************)
(* iter_today_entries, lines 36-42, with the body of main's loop, lines    *)
(* 99-103, that consumes each yielded entry.                                *)
(***************************************************************************)
\* Mutant of EntryOld: break out of the page instead of return.
EntryOldBreak ==
    /\ pc = "for" /\ idx <= Len(entries)
    /\ BeforeBoundary(entries[idx])
    /\ fetched' = fetched + Len(entries)
    /\ start' = start + PageSize
    /\ pc' = "while"
    /\ UNCHANGED <<side, disk, runs, env, tables, news, entries, idx, attempt,
                   clock, hist>>

EntryOld ==
    /\ pc = "for" /\ idx <= Len(entries)
    /\ BeforeBoundary(entries[idx])
    /\ stop' = "boundary"
    /\ pc' = "scanned"
    /\ UNCHANGED <<side, disk, runs, env, tables, news, scan, attempt, clock,
                   pre, yielded, requests, err>>

\* Mutant of EntryYield: each paper is written to the table as it is parsed.
EntryYieldPersist ==
    /\ pc = "for" /\ idx <= Len(entries)
    /\ ~BeforeBoundary(entries[idx])
    /\ ~ParseFails(entries[idx])
    /\ yielded' = Append(yielded, entries[idx])
    /\ new_papers' = Append(new_papers, ParseRec(entries[idx]))
    /\ new_authors' = new_authors \o ParseAuthors(entries[idx])
    /\ new_cats' = new_cats \o ParseCats(entries[idx])
    /\ papers_file' = File(ConcatPapers(load_parquet(papers_file),
                                        <<ParseRec(entries[idx])>>))
    /\ idx' = idx + 1
    /\ UNCHANGED <<side, authors_file, cats_file, log_file, pc, runs, env, tables,
                   np_df, na_df, nc_df, fetched, start, entries, attempt,
                   clock, pre, requests, stop, err>>

EntryYield ==
    /\ pc = "for" /\ idx <= Len(entries)
    /\ ~BeforeBoundary(entries[idx])
    /\ ~ParseFails(entries[idx])
    /\ yielded' = Append(yielded, entries[idx])
    /\ new_papers' = Append(new_papers, ParseRec(entries[idx]))
    /\ new_authors' = new_authors \o ParseAuthors(entries[idx])
    /\ new_cats' = new_cats \o ParseCats(entries[idx])
    /\ idx' = idx + 1
    /\ UNCHANGED <<side, disk, pc, runs, env, tables, np_df, na_df, nc_df,
                   fetched, start, entries, attempt, clock,
                   pre, requests, stop, err>>

EntryParseError ==
    /\ pc = "for" /\ idx <= Len(entries)
    /\ ~BeforeBoundary(entries[idx])
    /\ ParseFails(entries[idx])
    /\ yielded' = Append(yielded, entries[idx])
    /\ err' = "ValueError"
    /\ pc' = "error"
    /\ UNCHANGED <<side, disk, runs, env, tables, news, scan, attempt, clock,
                   pre, requests, stop>>

\* Mutant of PageEnd: the entries of the page are not counted.
PageEndNoCount ==
    /\ pc = "for" /\ idx > Len(entries)
    /\ start' = start + PageSize
    /\ pc' = "while"
    /\ UNCHANGED <<side, disk, runs, env, tables, news, fetched, entries, idx,
                   attempt, clock, hist>>

PageEnd ==
    /\ pc = "for" /\ idx > Len(entries)
    /\ fetched' = fetched + Len(entries)
    /\ start' = start + PageSize
    /\ pc' = "while"
    /\ UNCHANGED <<side, disk, runs, env, tables, news, entries, idx, attempt,
                   clock, hist>>

(***************************************************************************)
(* main, lines 105-115: nothing to do, or the merge in memory.  Nothing    *)
(* after line 111 reads the three lists, the finished generator or the     *)
(* scan's history: Merge drops them.                                        *)
(***************************************************************************)
NoNewPapers ==
    /\ pc = "scanned" /\ new_papers = <<>>
    /\ pc' = "nothing"
    /\ UNCHANGED <<side, disk, runs, env, tables, news, scan, attempt, clock, hist>>

Merge ==
    /\ pc = "scanned" /\ new_papers # <<>>
    /\ np_df' = NpDf(new_papers)
    /\ na_df' = NaDf(new_authors)
    /\ nc_df' = NcDf(new_cats)
    /\ papers' = ConcatPapers(papers, np_df')
    /\ authors' = ConcatAuthors(authors, na_df')
    /\ categories' = ConcatCats(categories, nc_df')
    /\ new_papers' = <<>> /\ new_authors' = <<>> /\ new_cats' = <<>>
    /\ feed' = <<>> /\ feedEnded' = FALSE /\ feedChanged' = FALSE
    /\ fetched' = 0 /\ start' = 0 /\ entries' = <<>> /\ idx' = 1
    /\ yielded' = <<>> /\ requests' = <<>> /\ stop' = "none"
    /\ pc' = "write_papers"
    /\ UNCHANGED <<side, disk, runs, attempt, clock, pre, err>>

(***************************************************************************)
(* main, lines 117-131: the three tables are written one after the other,  *)
(* then the ledger row is appended to the log read back from disk.         *)
(***************************************************************************)
\* Mutant of WritePapers: the Paper table is not written.
WritePapersSkipped ==
    /\ pc = "write_papers"
    /\ pc' = "write_authors"
    /\ UNCHANGED <<side, disk, runs, env, tables, news, scan, attempt, clock, hist>>

WritePapers ==
    /\ pc = "write_papers"
    /\ papers_file' = File(papers)
    /\ pc' = "write_authors"
    /\ UNCHANGED <<side, authors_file, cats_file, log_file, runs, env, tables,
                   news, scan, attempt, clock, hist>>

WriteAuthors ==
    /\ pc = "write_authors"
    /\ authors_file' = File(authors)
    /\ pc' = "write_cats"
    /\ UNCHANGED <<side, papers_file, cats_file, log_file, runs, env, tables,
                   news, scan, attempt, clock, hist>>

WriteCats ==
    /\ pc = "write_cats"
    /\ cats_file' = File(categories)
    /\ pc' = "write_log"
    /\ UNCHANGED <<side, papers_file, authors_file, log_file, runs, env, tables,
                   news, scan, attempt, clock, hist>>

\* Mutant of RunRow: the total is the number of new rows.
RunRowTotalNew ==
    [run_utc      |-> runs,
     new_papers   |-> Len(np_df),
     total_papers |-> Len(np_df)]

RunRow ==
    [run_utc      |-> runs,
     new_papers   |-> Len(np_df),
     total_papers |-> Len(papers)]

\* Mutant of WriteLog: the log is replaced by the run's row.
WriteLogOverwrite ==
    /\ pc = "write_log"
    /\ log_file' = File(<<RunRow>>)
    /\ pc' = "done"
    /\ UNCHANGED <<side, papers_file, authors_file, cats_file, runs, env, tables,
                   news, scan, attempt, clock, hist>>

WriteLog ==
    /\ pc = "write_log"
    /\ log_file' = IF log_file.exists
                   THEN File(Append(log_file.rows, RunRow))
                   ELSE File(<<RunRow>>)
    /\ pc' = "done"
    /\ UNCHANGED <<side, papers_file, authors_file, cats_file, runs, env, tables,
                   news, scan, attempt, clock, hist>>

(***************************************************************************)
(* A write that raises ends the run; the file it was to replace is left    *)
(* as it was, the files written before it stay written.                    *)
(***************************************************************************)
WriteRaise ==
    /\ pc \in {"write_papers", "write_authors", "write_cats", "write_log"}
    /\ err' = "StorageError"
    /\ pc' = "error"
    /\ UNCHANGED <<side, disk, runs, env, tables, news, scan, attempt, clock,
                   pre, yielded, requests, stop>>

Next ==
    \/ StartRun
    \/ WhileNext \/ WhileExit
    \/ FetchSleep \/ FetchReturn \/ FetchRaise \/ FetchWait
    \/ FeedChange
    \/ EntryOld \/ EntryYield \/ EntryParseError \/ PageEnd
    \/ NoNewPapers \/ Merge
    \/ WritePapers \/ WriteAuthors \/ WriteCats \/ WriteLog \/ WriteRaise

Spec == Init /\ [][Next]_vars

(***************************************************************************)
(* enrich_today.py.  A paper's text, line 30, is its title and summary;    *)
(* the titles of the catalogue stand for these texts.                       *)
(***************************************************************************)
MaxEnrich == 2

Text(r) ==
    CASE r.title = "t1" -> <<"L", "L", "M", " ", "d", "i", "f", "f", "u", "s", "i", "o", "n", " ", "c", "o", "d", "e">>
      [] r.title = "t2" -> <<"c", "u", "r", "l", " ", "t", "o", "o", "l">>
      [] OTHER          -> <<"f", "e", "d", "e", "r", "a", "t", "e", "d">>

\* str.lower, lines 8 and 35.
LowerChar(c) ==
    CASE c = "L" -> "l"
      [] c = "M" -> "m"
      [] OTHER   -> c

Lower(text) == [i \in 1..Len(text) |-> LowerChar(text[i])]

\* k in text: k is a substring of text.
Occurs(k, text) ==
    \E i \in 1..(Len(text) - Len(k) + 1) : SubSeq(text, i, i + Len(k) - 1) = k

AnyOf(ks, text) == \E k \in ks : Occurs(k, text)

\* simple_keywords, lines 9-14: the tags in the order they are appended.
TagList(text) ==
    LET t == Lower(text)
    IN  (IF AnyOf({<<"l", "a", "r", "g", "e", " ", "l", "a", "n", "g", "u", "a", "g", "e", " ", "m", "o", "d", "e", "l">>,
                 <<"l", "l", "m">>, <<"g", "p", "t">>}, t)
         THEN <<"llm">> ELSE <<>>)
        \o (IF AnyOf({<<"r", "e", "i", "n", "f", "o", "r", "c", "e", "m", "e", "n", "t", " ", "l", "e", "a", "r", "n", "i", "n", "g">>,
                    <<"r", "l", " ">>}, t)
            THEN <<"reinforcement-learning">> ELSE <<>>)
        \o (IF Occurs(<<"d", "i", "f", "f", "u", "s", "i", "o", "n">>, t) THEN <<"diffusion">> ELSE <<>>)
        \o (IF AnyOf({<<"g", "r", "a", "p", "h", " ", "n", "e", "u", "r", "a", "l">>,
                    <<"g", "n", "n">>}, t)
            THEN <<"gnn">> ELSE <<>>)
        \o (IF Occurs(<<"f", "e", "d", "e", "r", "a", "t", "e", "d">>, t)
            THEN <<"federated-learning">> ELSE <<>>)

\* simple_keywords, line 15: list(set(tags)) keeps the tags and leaves their
\* order to the interpreter's string hashing, which differs from one process
\* to the next: every order is possible.
simple_keywords(text) ==
    {p \in [1..Len(TagList(text)) -> Range(TagList(text))] :
        Range(p) = Range(TagList(text))}

\* Line 35.
HasCode(text) ==
    AnyOf({<<"g", "i", "t", "h", "u", "b", ".", "c", "o", "m">>,
         <<"c", "o", "d", "e">>,
         <<"i", "m", "p", "l", "e", "m", "e", "n", "t", "a", "t", "i", "o", "n">>}, Lower(text))

\* Line 23: the rows whose published date is today.
TodayRows(rows) == SelectSeq(rows, LAMBDA r : r.published.date = Today)

\* Lines 28-36: the rows a paper can get.
EnrichRow(r) ==
    {[paper_id_version |-> r.paper_id_version,
      tags             |-> t,
      has_code         |-> HasCode(Text(r))] : t \in simple_keywords(Text(r))}

\* Lines 28-38: one row per row of today_rows, in their order.
EnrichRows(today_rows) ==
    {e \in [1..Len(today_rows) -> UNION {EnrichRow(today_rows[i]) : i \in 1..Len(today_rows)}] :
        \A i \in 1..Len(today_rows) : e[i] \in EnrichRow(today_rows[i])}

\* Lines 39-41.
ConcatEnrich(prev, new) == DropDuplicatesLast(prev \o new, PaperKeys(prev \o new))

(***************************************************************************)
(* What the day before can have left: nothing, or a paper published that   *)
(* day with its links, its ledger row and its enrichment.                   *)
(***************************************************************************)
IdC  == <<"h", "/", "c", "v", "1">>
EntC == [id |-> IdC, title |-> "t3", published |-> Stamp(Today - 1),
         authors |-> << [name |-> "n1", affiliation |-> None] >>,
         tags |-> <<"c1">>]

DayBefore ==
    [papers     |-> File(<<ParseRec(EntC)>>),
     authors    |-> File(ParseAuthors(EntC)),
     categories |-> File(ParseCats(EntC)),
     log        |-> File(<<[run_utc |-> 0, new_papers |-> 1, total_papers |-> 1]>>),
     enrich     |-> File(<<[paper_id_version |-> EntryId(EntC),
                            tags             |-> TagList(Text(ParseRec(EntC))),
                            has_code         |-> HasCode(Text(ParseRec(EntC)))]>>)]

Fresh ==
    [papers |-> NoFile, authors |-> NoFile, categories |-> NoFile,
     log |-> NoFile, enrich |-> NoFile]

InitEnrich ==
    /\ \E d \in {Fresh, DayBefore} :
          /\ papers_file = d.papers /\ authors_file = d.authors
          /\ cats_file = d.categories /\ log_file = d.log
          /\ enrich_file = d.enrich
          /\ enrichedFrom = NotEnriched
          /\ pre = <<d.papers, d.authors, d.categories, d.log>>
    /\ pc = "idle" /\ runs = 0 /\ feed = <<>> /\ feedEnded = FALSE
    /\ feedChanged = FALSE
    /\ papers = <<>> /\ authors = <<>> /\ categories = <<>>
    /\ new_papers = <<>> /\ new_authors = <<>> /\ new_cats = <<>>
    /\ np_df = <<>> /\ na_df = <<>> /\ nc_df = <<>>
    /\ fetched = 0 /\ start = 0 /\ entries = <<>> /\ idx = 1
    /\ attempt = 1 /\ sinceCall = 0 /\ called = FALSE
    /\ yielded = <<>> /\ requests = <<>>
    /\ stop = "none" /\ err = "none"
    /\ epc = "idle" /\ eruns = 0 /\ enr = <<>>
    /\ other = OtherIdle

EnrichEnded == epc \in {"idle", "no_papers", "nothing", "done"}

\* A pass is a separate invocation, started before any ingestion run or
\* after one that stored; a run that ended otherwise leaves the files the
\* pass reads with contents these states have too.
EnrichReady == pc \in {"idle", "done"} /\ EnrichEnded /\ eruns < MaxEnrich

ingest == <<disk, pc, runs, env, tables, news, scan, attempt, clock, hist>>

\* Lines 18-20.
EnrichNoPapers ==
    /\ EnrichReady /\ ~papers_file.exists
    /\ eruns' = eruns + 1
    /\ enr' = <<>>
    /\ epc' = "no_papers"
    /\ UNCHANGED <<ingest, enrich_file, enrichedFrom, other>>

\* Mutant of EnrichNothing: an empty table is written.
EnrichNothingWrites ==
    /\ EnrichReady /\ papers_file.exists
    /\ TodayRows(papers_file.rows) = <<>>
    /\ eruns' = eruns + 1
    /\ enr' = <<>>
    /\ enrich_file' = File(<<>>)
    /\ epc' = "nothing"
    /\ UNCHANGED <<ingest, enrichedFrom, other>>

\* Lines 21-26.
EnrichNothing ==
    /\ EnrichReady /\ papers_file.exists
    /\ TodayRows(papers_file.rows) = <<>>
    /\ eruns' = eruns + 1
    /\ enr' = <<>>
    /\ epc' = "nothing"
    /\ UNCHANGED <<ingest, enrich_file, enrichedFrom, other>>

\* Lines 21-38.
EnrichCompute ==
    /\ EnrichReady /\ papers_file.exists
    /\ TodayRows(papers_file.rows) # <<>>
    /\ eruns' = eruns + 1
    /\ enr' \in EnrichRows(TodayRows(papers_file.rows))
    /\ epc' = "rows"
    /\ UNCHANGED <<ingest, enrich_file, enrichedFrom, other>>

EnrichedFrom(file) ==
    [from  |-> file,
     times |-> IF enrichedFrom.from = file THEN enrichedFrom.times + 1 ELSE 1]

\* Mutant of EnrichStore: the new rows are appended to the table.
EnrichStoreAppend ==
    /\ epc = "rows"
    /\ enrich_file' = File(IF enrich_file.exists
                           THEN enrich_file.rows \o enr
                           ELSE enr)
    /\ enrichedFrom' = EnrichedFrom(papers_file)
    /\ enr' = <<>>
    /\ epc' = "done"
    /\ UNCHANGED <<ingest, eruns, other>>

\* Lines 39-42.
EnrichStore ==
    /\ epc = "rows"
    /\ enrich_file' = File(IF enrich_file.exists
                           THEN ConcatEnrich(enrich_file.rows, enr)
                           ELSE enr)
    /\ enrichedFrom' = EnrichedFrom(papers_file)
    /\ enr' = <<>>
    /\ epc' = "done"
    /\ UNCHANGED <<ingest, eruns, other>>

NextEnrich ==
    \/ EnrichEnded /\ Next
    \/ EnrichNoPapers
    \/ EnrichNothing
    \/ EnrichCompute
    \/ EnrichStore

SpecEnrich == InitEnrich /\ [][NextEnrich]_vars

(***************************************************************************)
(* Two instances of arxiv_daily.py at once.  The second instance runs the  *)
(* same main; its scan touches nothing the two share, so its scan and its  *)
(* merge are one step, and each of its writes is a step of its own.  The   *)
(* run counter counts the runs of both.                                     *)
(***************************************************************************)
MaxOtherYield == 1

\* The entries a scan yields and parses.
Yieldable == {e \in Entries : ~BeforeBoundary(e) /\ ~ParseFails(e)}

OtherScans == SeqsUpTo(Yieldable, MaxOtherYield) \ {<<>>}

RECURSIVE Flat(_)
Flat(ss) == IF ss = <<>> THEN <<>> ELSE Head(ss) \o Flat(Tail(ss))

\* Lines 90-95.
OtherLoad ==
    /\ other.pc = "idle" /\ runs < MaxRuns
    /\ runs' = runs + 1
    /\ other' = [other EXCEPT !.pc = "scan", !.run = runs + 1,
                              !.papers = load_parquet(papers_file),
                              !.authors = load_parquet(authors_file),
                              !.categories = load_parquet(cats_file),
                              !.loaded = disk,
                              !.overlap = ~Ended]
    /\ UNCHANGED <<disk, pc, env, tables, news, scan, attempt, clock, hist,
                   enrich_file, epc, eruns, enr, enrichedFrom>>

\* Lines 97-115, for a scan that yielded ys.
OtherMerged(ys) ==
    LET np == NpDf([i \in 1..Len(ys) |-> ParseRec(ys[i])])
        na == NaDf(Flat([i \in 1..Len(ys) |-> ParseAuthors(ys[i])]))
        nc == NcDf(Flat([i \in 1..Len(ys) |-> ParseCats(ys[i])]))
    IN  [other EXCEPT !.pc = "write_papers",
                      !.np_df = np, !.na_df = na, !.nc_df = nc,
                      !.papers = ConcatPapers(other.papers, np),
                      !.authors = ConcatAuthors(other.authors, na),
                      !.categories = ConcatCats(other.categories, nc),
                      !.overlap = other.overlap \/ runs > other.run]

OtherMerge ==
    /\ other.pc = "scan"
    /\ \E ys \in OtherScans : other' = OtherMerged(ys)
    /\ UNCHANGED <<ingest, enrich_file, epc, eruns, enr, enrichedFrom>>

\* Line 117.
OtherWritePapers ==
    /\ other.pc = "write_papers"
    /\ papers_file' = File(other.papers)
    /\ other' = [other EXCEPT !.pc = "write_authors",
                              !.storedPapers = Range(PaperKeys(other.papers)),
                              !.overlap = other.overlap \/ runs > other.run]
    /\ UNCHANGED <<authors_file, cats_file, log_file, pc, runs, env, tables,
                   news, scan, attempt, clock, hist,
                   enrich_file, epc, eruns, enr, enrichedFrom>>

\* Line 118.
OtherWriteAuthors ==
    /\ other.pc = "write_authors"
    /\ authors_file' = File(other.authors)
    /\ other' = [other EXCEPT !.pc = "write_cats",
                              !.storedAuthors = Range(other.authors),
                              !.overlap = other.overlap \/ runs > other.run]
    /\ UNCHANGED <<papers_file, cats_file, log_file, pc, runs, env, tables,
                   news, scan, attempt, clock, hist,
                   enrich_file, epc, eruns, enr, enrichedFrom>>

\* Line 119.
OtherWriteCats ==
    /\ other.pc = "write_cats"
    /\ cats_file' = File(other.categories)
    /\ other' = [other EXCEPT !.pc = "write_log",
                              !.storedCats = Range(other.categories),
                              !.overlap = other.overlap \/ runs > other.run]
    /\ UNCHANGED <<papers_file, authors_file, log_file, pc, runs, env, tables,
                   news, scan, attempt, clock, hist,
                   enrich_file, epc, eruns, enr, enrichedFrom>>

\* Lines 121-131.
OtherRunRow ==
    [run_utc      |-> other.run,
     new_papers   |-> Len(other.np_df),
     total_papers |-> Len(other.papers)]

OtherWriteLog ==
    /\ other.pc = "write_log"
    /\ log_file' = IF log_file.exists
                   THEN File(Append(log_file.rows, OtherRunRow))
                   ELSE File(<<OtherRunRow>>)
    /\ other' = [other EXCEPT !.pc = "done",
                              !.overlap = other.overlap \/ runs > other.run]
    /\ UNCHANGED <<papers_file, authors_file, cats_file, pc, runs, env, tables,
                   news, scan, attempt, clock, hist,
                   enrich_file, epc, eruns, enr, enrichedFrom>>

NextOverlap ==
    \/ Next
    \/ OtherLoad \/ OtherMerge
    \/ OtherWritePapers \/ OtherWriteAuthors \/ OtherWriteCats \/ OtherWriteLog

SpecOverlap == Init /\ [][NextOverlap]_vars

\* The second instance was at work while a run of the first was.
Overlapped ==
    \/ other.overlap
    \/ other.pc \notin {"idle", "done"} /\ runs > other.run

(***************************************************************************)
(* Vocabulary of the properties.                                            *)
(***************************************************************************)
Unique(keys) == \A i, j \in 1..Len(keys) : keys[i] = keys[j] => i = j

IsPrefix(a, b) == Len(a) <= Len(b) /\ SubSeq(b, 1, Len(a)) = a

prePapers  == pre[1].rows
preAuthors == pre[2].rows
preCats    == pre[3].rows
preLog     == pre[4].rows

InRange(e) == PubDate(e) >= Today

InRangePrefixLen(f) ==
    CHOOSE n \in 0..Len(f) :
        /\ \A i \in 1..n : InRange(f[i])
        /\ n < Len(f) => ~InRange(f[n + 1])

LongestInRangePrefix(f) == SubSeq(f, 1, InRangePrefixLen(f))

Descending(f) == \A i, j \in 1..Len(f) : i < j => PubDate(f[i]) >= PubDate(f[j])

ScanOver == pc \in {"scanned", "nothing"}

Stored == pc = "done"

(***************************************************************************)
(* C1.  Key uniqueness: in every persisted state, whatever runs came       *)
(* before, no two Paper rows share paper_id_version, no two AuthorLink     *)
(* rows share (paper_id_version, author_name, affiliation), an absent      *)
(* affiliation included, and no two CategoryLink rows share                *)
(* (paper_id_version, category).                                            *)
(***************************************************************************)
C1_KeyUniqueness ==
    /\ Unique(PaperKeys(papers_file.rows))
    /\ Unique(AuthorKeys(authors_file.rows))
    /\ Unique(CatKeys(cats_file.rows))

\* A second run has stored a paper and an affiliation-less link that were
\* both stored before it.
C1_Witness ==
    /\ Stored /\ runs = 2
    /\ \E i \in 1..Len(np_df) : PaperKey(np_df[i]) \in Range(PaperKeys(prePapers))
    /\ \E i \in 1..Len(na_df) :
          /\ na_df[i].affiliation = None
          /\ AuthorKey(na_df[i]) \in Range(AuthorKeys(preAuthors))
    /\ \E i \in 1..Len(nc_df) : CatKey(nc_df[i]) \in Range(CatKeys(preCats))

(***************************************************************************)
(* C2.  Last-write-wins for Paper: when a run has stored its tables, every *)
(* key K of a new row that was persisted before the run has exactly one    *)
(* row in the Paper table, and that row is the new row, so that its field  *)
(* values are not the previously persisted ones where the two differ.      *)
(***************************************************************************)
C2_LastWriteWins ==
    Stored =>
        \A i \in 1..Len(np_df) :
            PaperKey(np_df[i]) \in Range(PaperKeys(prePapers)) =>
                /\ Cardinality({j \in 1..Len(papers_file.rows) :
                        PaperKey(papers_file.rows[j]) = PaperKey(np_df[i])}) = 1
                /\ \A j \in 1..Len(papers_file.rows) :
                        PaperKey(papers_file.rows[j]) = PaperKey(np_df[i])
                            => papers_file.rows[j] = np_df[i]

\* A run has stored a row for a key whose persisted row had other values.
C2_Witness ==
    /\ Stored
    /\ \E i \in 1..Len(np_df) : \E j \in 1..Len(prePapers) :
          /\ PaperKey(prePapers[j]) = PaperKey(np_df[i])
          /\ prePapers[j] # np_df[i]
          /\ np_df[i] \in Range(papers_file.rows)
          /\ prePapers[j] \notin Range(papers_file.rows)

(***************************************************************************)
(* C3.  Merge idempotence: once a run has merged its new rows into the     *)
(* three tables, merging the same new rows again leaves each table as it   *)
(* is, rows and order.                                                      *)
(***************************************************************************)
Merged == pc \in {"write_papers", "write_authors", "write_cats", "write_log", "done"}

C3_MergeIdempotent ==
    Merged =>
        /\ ConcatPapers(papers, np_df) = papers
        /\ ConcatAuthors(authors, na_df) = authors
        /\ ConcatCats(categories, nc_df) = categories

\* The merge replaced a persisted paper and met links already persisted.
C3_Witness ==
    /\ Merged
    /\ papers # prePapers
    /\ \E i \in 1..Len(np_df) : \E j \in 1..Len(prePapers) :
          PaperKey(prePapers[j]) = PaperKey(np_df[i]) /\ prePapers[j] # np_df[i]
    /\ \E i \in 1..Len(na_df) : na_df[i] \in Range(preAuthors)
    /\ \E i \in 1..Len(na_df) : na_df[i] \notin Range(preAuthors)
    /\ \E i \in 1..Len(nc_df) : nc_df[i] \in Range(preCats)

(***************************************************************************)
(* C4.  Boundary stop: when the scan of a feed that did not change ends    *)
(* otherwise than by the max_results cut-off, the entries yielded are the  *)
(* longest prefix of the feed dated on or after the boundary, in feed      *)
(* order; for a feed in descending order that is every entry dated on or   *)
(* after the boundary.  The first entry before the boundary and what       *)
(* follows it are not yielded.                                              *)
(***************************************************************************)
C4_BoundaryStop ==
    (pc = "scanned" /\ ~feedChanged /\ stop # "max_results") =>
        /\ yielded = LongestInRangePrefix(feed)
        /\ Descending(feed) => yielded = SelectSeq(feed, InRange)

\* A descending feed whose second page holds the first entry before the
\* boundary, after entries in range.
C4_Witness ==
    /\ pc = "scanned" /\ ~feedChanged /\ stop = "boundary"
    /\ Descending(feed)
    /\ Len(requests) = 2
    /\ Len(yielded) = PageSize + 1
    /\ Len(feed) > Len(yielded)

(***************************************************************************)
(* C5.  Once the scan has met an entry dated before the boundary it makes  *)
(* no further page request.  With a first page of PageSize entries dated   *)
(* today and a second page that starts with an entry dated yesterday, the  *)
(* page requests are exactly those at offsets 0 and PageSize, and the scan *)
(* ends in the second page having yielded the first page only, also when   *)
(* later entries of the second page are in range.                           *)
(***************************************************************************)
TwoPageScenario ==
    /\ ~feedChanged
    /\ Len(feed) > PageSize
    /\ \A i \in 1..PageSize : InRange(feed[i])
    /\ ~InRange(feed[PageSize + 1])

C5_StopInsidePage ==
    /\ [](stop = "boundary" => ScanOver)
    /\ []((ScanOver /\ TwoPageScenario) =>
            /\ requests = <<0, PageSize>>
            /\ yielded = SubSeq(feed, 1, PageSize)
            /\ stop = "boundary")
    /\ [][stop = "boundary" => Len(requests') <= Len(requests)]_vars

\* The scenario, with an entry in range after the one dated yesterday.
C5_Witness ==
    /\ ScanOver /\ TwoPageScenario
    /\ Len(feed) = PageSize + 2
    /\ InRange(feed[PageSize + 2])

(***************************************************************************)
(* C6.  Rate limit: whenever fetch is about to make a network call, at     *)
(* least 3 time units have passed since the previous network call of the   *)
(* run, a first attempt or a retry, for the same page or the page before;  *)
(* before the first call of the run at least 3 time units have been        *)
(* waited.                                                                  *)
(***************************************************************************)
C6_RateLimit == pc = "call" => sinceCall >= 3

\* The first attempt for a second page, right after the first page's call.
C6_Witness ==
    /\ pc = "call" /\ called /\ attempt = 1
    /\ Len(requests) = 2 /\ sinceCall = 3

(***************************************************************************)
(* C7.  Bounded retry: a page request makes at most 5 network attempts;    *)
(* a failed attempt other than the fifth is followed by a wait of 5 time   *)
(* units and the next attempt; an attempt that succeeds hands its page to  *)
(* the scan and the offset is not requested again; the fifth failure ends  *)
(* the run in the error state, with no page request and no entry after it. *)
(***************************************************************************)
C7_BoundedRetry ==
    /\ [](attempt \in 1..5)
    /\ [](\A i, j \in 1..Len(requests) : i < j => requests[i] < requests[j])
    /\ []((pc = "error" /\ err = "RetryError") => attempt = 5)
    /\ [][pc = "call" =>
            \/ pc' \in {"for", "scanned"} /\ (entries' # <<>>) = (pc' = "for")
                 /\ requests' = requests
            \/ pc' = "wait" /\ attempt < 5 /\ attempt' = attempt
            \/ pc' = "error" /\ attempt = 5 /\ err' = "RetryError"]_vars
    /\ [][pc = "wait" =>
            pc' = "sleep" /\ attempt' = attempt + 1
                /\ sinceCall' = sinceCall + 5]_vars
    /\ [][pc = "error" =>
            pc' = "while" /\ runs' = runs + 1 /\ requests' = <<>>
                /\ yielded' = <<>>]_vars

\* The second page's request failed five times after the first page was
\* yielded.
C7_Witness ==
    /\ pc = "error" /\ err = "RetryError"
    /\ Len(requests) = 2 /\ Len(yielded) = PageSize

(***************************************************************************)
(* C8.  No partial persistence: a run ended by a fetch failure or by a     *)
(* parse failure leaves the three tables and the ledger exactly as they    *)
(* were when it started, whatever it had yielded and normalised.           *)
(***************************************************************************)
C8_NoPartialPersistence ==
    (pc = "error" /\ err \in {"RetryError", "ValueError"}) => disk = pre

\* A later run failed in its second page with papers already normalised,
\* over tables an earlier run had stored.
C8_Witness ==
    /\ pc = "error" /\ err = "ValueError"
    /\ Len(requests) = 2 /\ new_papers # <<>>
    /\ papers_file.exists /\ log_file.exists

C8_WitnessFetch ==
    /\ pc = "error" /\ err = "RetryError"
    /\ Len(requests) = 2 /\ new_papers # <<>>
    /\ papers_file.exists /\ log_file.exists

(***************************************************************************)
(* C9.  As claimed: every run that completes without error, a run whose    *)
(* scan yielded nothing included, has appended exactly one row to the      *)
(* ledger.                                                                  *)
(***************************************************************************)
AppendedOneRow ==
    /\ log_file.exists
    /\ Len(log_file.rows) = Len(preLog) + 1
    /\ IsPrefix(preLog, log_file.rows)

C9_Original == pc \in {"done", "nothing"} => AppendedOneRow

(***************************************************************************)
(* C9, amended.  A run that completes without error after a scan that      *)
(* yielded at least one entry has appended exactly one row to the ledger,  *)
(* also when every paper it scanned was stored already; a run whose scan   *)
(* yielded nothing ends with the ledger, and the tables, as they were.     *)
(***************************************************************************)
C9_OneRowPerStoringRun ==
    /\ pc = "done" => AppendedOneRow
    /\ pc = "nothing" => disk = pre

\* A run appended its row although all its papers were stored already.
C9_Witness ==
    /\ pc = "done" /\ preLog # <<>>
    /\ papers_file.rows = prePapers

(***************************************************************************)
(* C10.  Nothing is deleted: when a run has stored, the keys of each table *)
(* are the keys persisted before the run together with the keys of the     *)
(* rows the run normalised; and at every point of a run every key          *)
(* persisted before it is still persisted.                                  *)
(***************************************************************************)
C10_NothingDeleted ==
    /\ Stored =>
        /\ Range(PaperKeys(papers_file.rows))
             = Range(PaperKeys(prePapers)) \cup Range(PaperKeys(np_df))
        /\ Range(AuthorKeys(authors_file.rows))
             = Range(AuthorKeys(preAuthors)) \cup Range(AuthorKeys(na_df))
        /\ Range(CatKeys(cats_file.rows))
             = Range(CatKeys(preCats)) \cup Range(CatKeys(nc_df))
    /\ Range(PaperKeys(prePapers)) \subseteq Range(PaperKeys(papers_file.rows))
    /\ Range(AuthorKeys(preAuthors)) \subseteq Range(AuthorKeys(authors_file.rows))
    /\ Range(CatKeys(preCats)) \subseteq Range(CatKeys(cats_file.rows))

\* A paper came back with another author list and another category list:
\* links persisted for it are not among the run's links.
C10_Witness ==
    /\ Stored
    /\ \E i \in 1..Len(np_df) : \E j \in 1..Len(preAuthors) : \E k \in 1..Len(preCats) :
          /\ preAuthors[j].paper_id_version = PaperKey(np_df[i])
          /\ preAuthors[j] \notin Range(na_df)
          /\ preCats[k].paper_id_version = PaperKey(np_df[i])
          /\ preCats[k] \notin Range(nc_df)

(***************************************************************************)
(* C11.  As claimed: a run that fails while it writes its results leaves   *)
(* the three tables and the ledger as they were before the run.            *)
(***************************************************************************)
C11_Original == (pc = "error" /\ err = "StorageError") => disk = pre

(***************************************************************************)
(* C15.  As claimed: when the merge takes the run's new rows, the Paper    *)
(* row it keeps for a key scanned more than once is the one parsed from    *)
(* the entry yielded last.                                                  *)
(***************************************************************************)
C15_Original ==
    [][(pc = "scanned" /\ pc' = "write_papers") =>
          \A i \in 1..Len(new_papers) :
              (\A j \in (i + 1)..Len(new_papers) :
                    PaperKey(new_papers[j]) # PaperKey(new_papers[i]))
                  => new_papers[i] \in Range(papers')]_vars

(***************************************************************************)
(* C16.  Referential integrity: in every persisted state, between the      *)
(* writes of a run and after a run that stopped between two writes too,    *)
(* the paper_id_version of every AuthorLink row and of every CategoryLink  *)
(* row is the key of a row of the Paper table.                              *)
(***************************************************************************)
C16_LinksReferToPapers ==
    /\ \A i \in 1..Len(authors_file.rows) :
          authors_file.rows[i].paper_id_version \in Range(PaperKeys(papers_file.rows))
    /\ \A i \in 1..Len(cats_file.rows) :
          cats_file.rows[i].paper_id_version \in Range(PaperKeys(papers_file.rows))

\* A run stopped after writing a new paper and before writing its links,
\* over tables an earlier run had stored.
C16_Witness ==
    /\ pc = "error" /\ err = "StorageError"
    /\ prePapers # <<>> /\ preAuthors # <<>>
    /\ Range(PaperKeys(papers_file.rows)) # Range(PaperKeys(prePapers))
    /\ authors_file.rows = preAuthors
    /\ \E i \in 1..Len(na_df) : na_df[i] \notin Range(authors_file.rows)

(***************************************************************************)
(* C17.  Cut-off: a page is requested only while the number of entries     *)
(* yielded so far is below max_results; the page on which the count        *)
(* reaches it is finished, so the entries yielded are fewer than           *)
(* max_results plus the size of the last page; the offsets requested are   *)
(* 0, page_size, 2 * page_size, ... in that order, none twice.             *)
(***************************************************************************)
C17_CutOff ==
    /\ [](\A i \in 1..Len(requests) : requests[i] = (i - 1) * PageSize)
    /\ [](pc = "while" => fetched = Len(yielded))
    /\ [](Len(yielded) < MaxResults + Len(entries))
    /\ [](stop = "max_results" => Len(yielded) >= MaxResults)
    /\ [][Len(requests') > Len(requests) => Len(yielded) < MaxResults]_vars

\* The scan ended by the cut-off having yielded more than max_results.
C17_Witness ==
    /\ pc = "scanned" /\ stop = "max_results"
    /\ Len(yielded) > MaxResults
    /\ requests = <<0, PageSize>>

(***************************************************************************)
(* C19.  As claimed: the new-paper count of the row a run appends to the   *)
(* ledger is the number of keys in the Paper table after the run that were *)
(* not in it before the run.                                                *)
(***************************************************************************)
LastRow == log_file.rows[Len(log_file.rows)]

C19_Original ==
    Stored =>
        LastRow.new_papers =
            Cardinality(Range(PaperKeys(papers_file.rows))
                            \ Range(PaperKeys(prePapers)))

(***************************************************************************)
(* C20.  Ledger consistency: a run never changes, removes or reorders the  *)
(* rows the ledger held before it; the total of the row a run appends is   *)
(* the number of rows of the Paper table that run stored; the totals do    *)
(* not decrease along the ledger.                                           *)
(***************************************************************************)
C20_LedgerConsistent ==
    /\ IsPrefix(preLog, log_file.rows)
    /\ Stored => LastRow.total_papers = Len(papers_file.rows)
    /\ \A i, j \in 1..Len(log_file.rows) :
          i < j => log_file.rows[i].total_papers <= log_file.rows[j].total_papers

\* A second row was appended, with a larger total, after a run in between
\* had failed.
C20_Witness ==
    /\ Stored /\ Len(log_file.rows) = 2
    /\ log_file.rows[1].total_papers < log_file.rows[2].total_papers

(***************************************************************************)
(* The run is one thread of straight-line code: once started it takes its  *)
(* next step, whatever the feed answers.  Nothing obliges a further run to *)
(* be started, nor a submission to arrive.                                  *)
(***************************************************************************)
RunStep ==
    \/ WhileNext \/ WhileExit
    \/ FetchSleep \/ FetchReturn \/ FetchRaise \/ FetchWait
    \/ EntryOld \/ EntryYield \/ EntryParseError \/ PageEnd
    \/ NoNewPapers \/ Merge
    \/ WritePapers \/ WriteAuthors \/ WriteCats \/ WriteLog \/ WriteRaise

SpecFair == Spec /\ WF_vars(RunStep)

(***************************************************************************)
(* C18.  Termination: a run makes finitely many page requests, at most     *)
(* max_results of them, and every run that was started ends: stored and    *)
(* logged, with nothing to do, or with an error.                            *)
(***************************************************************************)
C18_Terminates ==
    /\ [](Len(requests) <= MaxResults)
    /\ [](attempt <= StopAfterAttempt)
    /\ (~Ended) ~> (pc \in {"done", "nothing", "error"})

\* A second run ended with nothing to do after a first one had stored.
C18_Witness ==
    /\ pc = "nothing" /\ runs = MaxRuns
    /\ log_file.rows # <<>>
    /\ requests # <<>>

(***************************************************************************)
(* C13.  Enrichment upsert: a pass that stores leaves one row per paper    *)
(* published today and no key twice, and keeps the rows of the papers      *)
(* enriched on earlier days; when the pass before it, the same day, stored *)
(* from the same Paper table, the table it leaves has the same keys, tag   *)
(* sets and has_code values as the one it found.                            *)
(***************************************************************************)
EnrichContent(rows) ==
    {[paper_id_version |-> rows[i].paper_id_version,
      tags             |-> Range(rows[i].tags),
      has_code         |-> rows[i].has_code] : i \in 1..Len(rows)}

C13_EnrichUpsert ==
    [][(epc = "rows" /\ epc' = "done") =>
          /\ Unique(PaperKeys(enrich_file'.rows))
          /\ Range(PaperKeys(TodayRows(papers_file.rows)))
                \subseteq Range(PaperKeys(enrich_file'.rows))
          /\ \A i \in 1..Len(enrich_file.rows) :
                enrich_file.rows[i].paper_id_version
                        \notin Range(PaperKeys(TodayRows(papers_file.rows)))
                    => enrich_file.rows[i] \in Range(enrich_file'.rows)
          /\ enrichedFrom.from = papers_file
                => EnrichContent(enrich_file'.rows) = EnrichContent(enrich_file.rows)]_vars

\* The second pass in a row over the same Paper table has stored: two papers
\* of today, one of them with two tags, next to the paper of the day before.
C13_Witness ==
    /\ epc = "done" /\ enrichedFrom.times = 2
    /\ Len(enrich_file.rows) = 3
    /\ \E i \in 1..Len(enrich_file.rows) : Len(enrich_file.rows[i].tags) = 2

(***************************************************************************)
(* C14.  Enrichment no-op: a pass that finds no Paper table, or no Paper   *)
(* row published today, ends at once, and the Enrichment table, the three  *)
(* tables and the ledger are as they were, a missing file still missing.   *)
(***************************************************************************)
C14_EnrichNoop ==
    [][(eruns' = eruns + 1
            /\ (IF papers_file.exists
                THEN TodayRows(papers_file.rows) = <<>> ELSE TRUE)) =>
          /\ epc' \in {"no_papers", "nothing"}
          /\ enrich_file' = enrich_file
          /\ disk' = disk]_vars

\* Two passes over the tables of the day before have ended with nothing
\* to enrich.
C14_Witness ==
    /\ epc = "nothing" /\ eruns = 2
    /\ papers_file = DayBefore.papers
    /\ enrich_file = DayBefore.enrich

(***************************************************************************)
(* C12.  Two overlapping runs can lose an update: the witness is a state   *)
(* in which both have stored and a paper one of them stored is not in the  *)
(* Paper table.  When the runs do not overlap, every row a run has stored  *)
(* is persisted in every later state.                                       *)
(***************************************************************************)
C12_NoLossWithoutOverlap ==
    ~Overlapped =>
        /\ other.storedPapers \subseteq Range(PaperKeys(papers_file.rows))
        /\ other.storedAuthors \subseteq Range(authors_file.rows)
        /\ other.storedCats \subseteq Range(cats_file.rows)
        /\ Stored =>
            /\ Range(PaperKeys(papers)) \subseteq Range(PaperKeys(papers_file.rows))
            /\ Range(authors) \subseteq Range(authors_file.rows)
            /\ Range(categories) \subseteq Range(cats_file.rows)

\* Both runs loaded the same tables, both have stored, and a paper and a
\* link the second instance stored are gone.
C12_Witness ==
    /\ Stored /\ other.pc = "done"
    /\ Overlapped /\ other.loaded = pre
    /\ ~(other.storedPapers \subseteq Range(PaperKeys(papers_file.rows)))
    /\ ~(other.storedAuthors \subseteq Range(authors_file.rows))

====
